---- MODULE Spec2Model ----
(***************************************************************************)
(* The appointment routes of src/modules/booking/routes/booking.js as a    *)
(* state machine.  The persistent store (appointments and the stats of     *)
(* patient, provider and practice records) is the shared state; every      *)
(* request is a client whose handler runs one store operation per step,    *)
(* the steps of different clients interleaving at every await.             *)
(***************************************************************************)
EXTENDS Integers, Sequences, FiniteSets, TLC

VARIABLES appts, nextId, patientStats, providerStats, practiceStats,
          req, resp, createOk, cancelOk, listed, hist

vars == <<appts, nextId, patientStats, providerStats, practiceStats,
          req, resp, createOk, cancelOk, listed, hist>>

(* ------------------------------ bounds --------------------------------- *)

\* Appointments ever created (ids are never reused).
MaxAppts == 2
\* Cancel requests that get past their lookup (caps stats.cancelledAppointments).
MaxCancels == 2
\* Largest instant of the time line, in ticks.
MaxTime == 3
\* Ticks in one day: nextDay.setDate(nextDay.getDate() + 1).
DayLen == 2

(* ------------------------------ domains -------------------------------- *)

None == "none"
\* An absent date (a field a body leaves out, stats.nextAppointment never set).
NoDate == 0 - 1

Practices == {"prac1"}
Patients == {"pat1"}
Providers == {"prov1"}
\* Ids a request may name: the stored ones and one that names nothing.
PracticeIds == Practices \cup {"pracX"}
PatientIds == Patients \cup {"patX"}
ProviderIds == Providers \cup {"provX"}

ApptIds == 1..MaxAppts
\* An id a request may name: a stored or deleted appointment, or one not issued yet.
ReqApptIds == ApptIds

Instants == 0..MaxTime
\* Instants that requests of the booking specifications use for appointmentDate.
Dates == {0, DayLen}
Times == {"09:00"}
Statuses == {"scheduled", "cancelled", "no-show"}

NoAppt == [status |-> None]

Seq1 == {"c1"}
Seq2 == {"c1", "c2"}

Idle ==
  [kind |-> "idle", pc |-> "idle", practiceId |-> None, patientId |-> None,
   providerId |-> None, appointmentDate |-> 0, startTime |-> None,
   status |-> None, valid |-> TRUE, id |-> 0, n |-> 0,
   \* kept for the properties only: the records the request has written; the
   \* store rejected its write for a validation reason; its conflict query found
   \* nothing; the stat update that failed.
   wrote |-> {}, rejected |-> FALSE, passed |-> FALSE, failed |-> None]

(* ------------------------------ responses ------------------------------ *)

Resp(code, text) == [code |-> code, text |-> text]
NoResp == Resp(0, "")

(* ------------------------------ the store ------------------------------ *)

Stored(a, id) == id \in DOMAIN a /\ a[id] # NoAppt

\* status: { $nin: ['cancelled', 'no-show'] }
Active(rec) == rec.status \notin {"cancelled", "no-show"}


\* The create route's query with $in written for $nin.
CreateConflictIn(a, providerId, date, time) ==
  {id \in DOMAIN a : /\ a[id] # NoAppt
                     /\ a[id].providerId = providerId
                     /\ a[id].appointmentDate = date
                     /\ a[id].startTime = time
                     /\ ~Active(a[id])}

\* The create route's query without its status filter.
CreateConflictAnyStatus(a, providerId, date, time) ==
  {id \in DOMAIN a : /\ a[id] # NoAppt
                     /\ a[id].providerId = providerId
                     /\ a[id].appointmentDate = date
                     /\ a[id].startTime = time}

\* Appointment.findOne of the create route: the stored appointments of the
\* provider at exactly (appointmentDate, startTime), cancelled and no-show excluded.
CreateConflict(a, providerId, date, time) ==
  {id \in DOMAIN a : /\ a[id] # NoAppt
                     /\ a[id].providerId = providerId
                     /\ a[id].appointmentDate = date
                     /\ a[id].startTime = time
                     /\ Active(a[id])}

\* The reschedule route's query without _id: { $ne: appointment._id }.
RescheduleConflictNoSelf(a, providerId, date, time, self) ==
  {id \in DOMAIN a : /\ a[id] # NoAppt
                     /\ a[id].providerId = providerId
                     /\ a[id].appointmentDate = date
                     /\ a[id].startTime = time
                     /\ Active(a[id])}

\* Appointment.findOne of the reschedule route: as above, _id: { $ne: own id }.
RescheduleConflict(a, providerId, date, time, self) ==
  {id \in DOMAIN a : /\ a[id] # NoAppt
                     /\ a[id].providerId = providerId
                     /\ a[id].appointmentDate = date
                     /\ a[id].startTime = time
                     /\ Active(a[id])
                     /\ id # self}

\* Appointment.countDocuments({ providerId, status: { $ne: 'cancelled' } })
CountProvider(a, providerId) ==
  Cardinality({id \in DOMAIN a : /\ a[id] # NoAppt
                                 /\ a[id].providerId = providerId
                                 /\ a[id].status # "cancelled"})

\* Appointment.countDocuments({ practiceId })
CountPractice(a, practiceId) ==
  Cardinality({id \in DOMAIN a : a[id] # NoAppt /\ a[id].practiceId = practiceId})

(* ------------------------ the models' own methods ---------------------- *)

\* record.updateStats({ field: value }): the field of stats is set and saved.
UpdateStats(stats, id, field, value) == [stats EXCEPT ![id][field] = value]

\* appointment.updateStatus(status)
UpdateStatus(rec, status) == [rec EXCEPT !.status = status]

\* appointment.cancel(cancelledBy, reason)
Cancel(rec) == [rec EXCEPT !.status = "cancelled"]

\* appointment.reschedule(newDate, newStartTime, newEndTime, reason)
Reschedule(rec, newDate, newStartTime) ==
  [rec EXCEPT !.appointmentDate = newDate, !.startTime = newStartTime]

(* --------------------------- request plumbing -------------------------- *)

Free(c) == req[c].pc = "idle"

Over(c) == req[c].pc \in {"idle", "done"}

InFlight(kind) == Cardinality({c \in DOMAIN req : req[c].kind = kind /\ ~Over(c)})

\* res.status(code).json(...): the handler ends with this response.
Respond(c, r) ==
  /\ resp' = [resp EXCEPT ![c] = r]
  /\ req' = [req EXCEPT ![c].pc = "done"]

\* The handler goes on to its next store operation.
Goto(c, pc) ==
  /\ req' = [req EXCEPT ![c].pc = pc]
  /\ UNCHANGED resp

StoreUnchanged == UNCHANGED <<appts, nextId>>
StatsUnchanged == UNCHANGED <<patientStats, providerStats, practiceStats>>
GhostUnchanged == UNCHANGED <<createOk, cancelOk, listed>>

\* History of a request, kept for the properties only.  Of a create: blocked, an
\* active appointment whose create was answered 201 has occupied its slot ever
\* since it arrived; freed, it arrived at a slot that no active appointment but a
\* cancelled one with an acknowledged cancel occupied, and none has since.  Of a
\* reschedule of a stored appointment: blocked, a different active appointment of
\* its provider has occupied the new slot ever since it arrived; clear, none has;
\* own, the new slot is the one the appointment had when the request arrived;
\* sound, no slot was double-booked when the request arrived.
\* All of them stop changing once the conflict query has run.
NoHist ==
  [blocked |-> FALSE, freed |-> FALSE, clear |-> FALSE, own |-> FALSE,
   sound |-> FALSE]

Blockers(a, r) ==
  {id \in DOMAIN a : /\ a[id] # NoAppt
                     /\ a[id].providerId = r.providerId
                     /\ a[id].appointmentDate = r.appointmentDate
                     /\ a[id].startTime = r.startTime
                     /\ a[id].status \notin {"cancelled", "no-show"}}

FreshHist(r) ==
  IF r.kind = "create"
  THEN [NoHist EXCEPT
          !.blocked = Blockers(appts, r) \cap createOk # {},
          !.freed = /\ Blockers(appts, r) = {}
                    /\ \E id \in DOMAIN appts :
                         /\ appts[id] # NoAppt
                         /\ appts[id].providerId = r.providerId
                         /\ appts[id].appointmentDate = r.appointmentDate
                         /\ appts[id].startTime = r.startTime
                         /\ appts[id].status = "cancelled"
                         /\ cancelOk[id] > 0]
  ELSE IF r.kind = "reschedule" /\ r.pc # "done"
  THEN [NoHist EXCEPT
          !.blocked = Blockers(appts, r) \ {r.id} # {},
          !.clear = Blockers(appts, r) \ {r.id} = {},
          !.own = /\ appts[r.id].appointmentDate = r.appointmentDate
                  /\ appts[r.id].startTime = r.startTime,
          !.sound = \A x, y \in DOMAIN appts :
                      (x # y /\ appts[x] # NoAppt /\ appts[y] # NoAppt) =>
                        Blockers(appts, appts[x]) \cap {x, y} # {x, y}]
  ELSE NoHist

KeptHist(k) ==
  IF req[k].kind = "create" /\ req[k].pc \in {"c_patient", "c_provider", "c_conflict"}
  THEN [hist[k] EXCEPT
          !.blocked = @ /\ Blockers(appts', req[k]) \cap createOk' # {},
          !.freed = @ /\ Blockers(appts', req[k]) = {}]
  ELSE IF req[k].kind = "reschedule" /\ req[k].pc = "r_conflict"
  THEN [hist[k] EXCEPT
          !.blocked = @ /\ Blockers(appts', req[k]) \ {req[k].id} # {},
          !.clear = @ /\ Blockers(appts', req[k]) \ {req[k].id} = {}]
  ELSE hist[k]

\* c takes a step; arrives says whether the step is the arrival of its request.
Track(c, arrives) ==
  hist' = [k \in DOMAIN hist |->
             IF k = c THEN (IF arrives THEN FreshHist(req'[c]) ELSE hist[c])
             ELSE KeptHist(k)]

(* ------------------------------ POST / --------------------------------- *)

R404Practice == Resp(404, "Practice not found")
R404Patient == Resp(404, "Patient not found")
R404Provider == Resp(404, "Provider not found")
R400Booked == Resp(400, "Time slot already booked for this provider")
R201Created == Resp(201, "Appointment created successfully")
R500Create == Resp(500, "Failed to create appointment")

\* The request arrives and Practice.findById runs.
CreatePractice(c, body) ==
  /\ Free(c)
  /\ nextId + InFlight("create") <= MaxAppts
  /\ LET r == [Idle EXCEPT !.kind = "create",
                           !.practiceId = body.practiceId,
                           !.patientId = body.patientId,
                           !.providerId = body.providerId,
                           !.appointmentDate = body.appointmentDate,
                           !.startTime = body.startTime,
                           !.valid = body.valid]
     IN IF body.practiceId \notin Practices
        THEN /\ req' = [req EXCEPT ![c] = [r EXCEPT !.pc = "done"]]
             /\ resp' = [resp EXCEPT ![c] = R404Practice]
        ELSE /\ req' = [req EXCEPT ![c] = [r EXCEPT !.pc = "c_patient"]]
             /\ resp' = [resp EXCEPT ![c] = NoResp]
  /\ StoreUnchanged /\ StatsUnchanged /\ GhostUnchanged
  /\ Track(c, TRUE)

\* Patient.findById answering a missing patient with the provider's message.
CreatePatientMisnamed(c) ==
  /\ req[c].pc = "c_patient"
  /\ IF req[c].patientId \notin Patients
     THEN Respond(c, R404Provider)
     ELSE Goto(c, "c_provider")
  /\ StoreUnchanged /\ StatsUnchanged /\ GhostUnchanged
  /\ Track(c, FALSE)

\* Patient.findById
CreatePatient(c) ==
  /\ req[c].pc = "c_patient"
  /\ IF req[c].patientId \notin Patients
     THEN Respond(c, R404Patient)
     ELSE Goto(c, "c_provider")
  /\ StoreUnchanged /\ StatsUnchanged /\ GhostUnchanged
  /\ Track(c, FALSE)

\* Provider.findById
CreateProvider(c) ==
  /\ req[c].pc = "c_provider"
  /\ IF req[c].providerId \notin Providers
     THEN Respond(c, R404Provider)
     ELSE Goto(c, "c_conflict")
  /\ StoreUnchanged /\ StatsUnchanged /\ GhostUnchanged
  /\ Track(c, FALSE)

\* Appointment.findOne({ providerId, appointmentDate, startTime, status: $nin })
CreateCheck(c) ==
  /\ req[c].pc = "c_conflict"
  /\ IF CreateConflict(appts, req[c].providerId, req[c].appointmentDate,
                       req[c].startTime) # {}
     THEN Respond(c, R400Booked)
     ELSE req' = [req EXCEPT ![c].pc = "c_save", ![c].passed = TRUE]
          /\ UNCHANGED resp
  /\ StoreUnchanged /\ StatsUnchanged /\ GhostUnchanged
  /\ Track(c, FALSE)

\* The status of an appointment whose body names none.
DefaultStatus == "scheduled"

\* new Appointment(req.body) as a stored document.
NewAppointment(r) ==
  [practiceId |-> r.practiceId, patientId |-> r.patientId,
   providerId |-> r.providerId, appointmentDate |-> r.appointmentDate,
   startTime |-> r.startTime, status |-> DefaultStatus]

\* appointment.save() as a check-and-insert: a slot taken since the query is refused.
CreateSaveChecked(c) ==
  /\ req[c].pc = "c_save"
  /\ IF CreateConflict(appts, req[c].providerId, req[c].appointmentDate,
                       req[c].startTime) # {}
     THEN /\ Respond(c, R400Booked)
          /\ StoreUnchanged
     ELSE /\ appts' = [appts EXCEPT ![nextId] = NewAppointment(req[c])]
          /\ nextId' = nextId + 1
          /\ req' = [req EXCEPT ![c].pc = "c_stat1", ![c].id = nextId,
                                ![c].wrote = {"appointment"}]
          /\ UNCHANGED resp
  /\ StatsUnchanged /\ GhostUnchanged
  /\ Track(c, FALSE)

\* appointment.save(): a body the schema rejects throws, and the catch answers.
CreateSave(c) ==
  /\ req[c].pc = "c_save"
  /\ IF ~req[c].valid
     THEN /\ resp' = [resp EXCEPT ![c] = R500Create]
          /\ req' = [req EXCEPT ![c].pc = "done", ![c].rejected = TRUE]
          /\ StoreUnchanged
     ELSE /\ appts' = [appts EXCEPT ![nextId] = NewAppointment(req[c])]
          /\ nextId' = nextId + 1
          /\ req' = [req EXCEPT ![c].pc = "c_stat1", ![c].id = nextId,
                                ![c].wrote = {"appointment"}]
          /\ UNCHANGED resp
  /\ StatsUnchanged /\ GhostUnchanged
  /\ Track(c, FALSE)


\* patient.updateStats with its failure swallowed: the handler goes on.
CreatePatientStatsBestEffort(c, fails) ==
  /\ req[c].pc = "c_stat1"
  /\ \E fail \in fails :
       IF fail
       THEN /\ req' = [req EXCEPT ![c].pc = "c_count2", ![c].failed = "patient"]
            /\ UNCHANGED <<resp, patientStats>>
       ELSE /\ patientStats' = UpdateStats(patientStats, req[c].patientId,
                 "nextAppointment", req[c].appointmentDate)
            /\ req' = [req EXCEPT ![c].pc = "c_count2",
                                  ![c].wrote = @ \cup {"patient"}]
            /\ UNCHANGED resp
  /\ StoreUnchanged /\ UNCHANGED <<providerStats, practiceStats>> /\ GhostUnchanged
  /\ Track(c, FALSE)

\* patient.updateStats({ nextAppointment }); a rejected write throws.
CreatePatientStats(c, fails) ==
  /\ req[c].pc = "c_stat1"
  /\ \E fail \in fails :
       IF fail
       THEN /\ resp' = [resp EXCEPT ![c] = R500Create]
            /\ req' = [req EXCEPT ![c].pc = "done", ![c].failed = "patient"]
            /\ UNCHANGED patientStats
       ELSE /\ patientStats' = UpdateStats(patientStats, req[c].patientId,
                 "nextAppointment", req[c].appointmentDate)
            /\ req' = [req EXCEPT ![c].pc = "c_count2",
                                  ![c].wrote = @ \cup {"patient"}]
            /\ UNCHANGED resp
  /\ StoreUnchanged /\ UNCHANGED <<providerStats, practiceStats>> /\ GhostUnchanged
  /\ Track(c, FALSE)

\* Appointment.countDocuments({ providerId, status: { $ne: 'cancelled' } })
CreateCountProvider(c) ==
  /\ req[c].pc = "c_count2"
  /\ req' = [req EXCEPT ![c].pc = "c_stat2",
                        ![c].n = CountProvider(appts, req[c].providerId)]
  /\ UNCHANGED resp
  /\ StoreUnchanged /\ StatsUnchanged /\ GhostUnchanged
  /\ Track(c, FALSE)

\* provider.updateStats({ totalAppointments })
CreateProviderStats(c, fails) ==
  /\ req[c].pc = "c_stat2"
  /\ \E fail \in fails :
       IF fail
       THEN /\ resp' = [resp EXCEPT ![c] = R500Create]
            /\ req' = [req EXCEPT ![c].pc = "done", ![c].failed = "provider"]
            /\ UNCHANGED providerStats
       ELSE /\ providerStats' = UpdateStats(providerStats, req[c].providerId,
                 "totalAppointments", req[c].n)
            /\ req' = [req EXCEPT ![c].pc = "c_count3",
                                  ![c].wrote = @ \cup {"provider"}]
            /\ UNCHANGED resp
  /\ StoreUnchanged /\ UNCHANGED <<patientStats, practiceStats>> /\ GhostUnchanged
  /\ Track(c, FALSE)

\* Appointment.countDocuments({ practiceId })
CreateCountPractice(c) ==
  /\ req[c].pc = "c_count3"
  /\ req' = [req EXCEPT ![c].pc = "c_stat3",
                        ![c].n = CountPractice(appts, req[c].practiceId)]
  /\ UNCHANGED resp
  /\ StoreUnchanged /\ StatsUnchanged /\ GhostUnchanged
  /\ Track(c, FALSE)

\* practice.updateStats({ totalAppointments }), then res.status(201)
CreatePracticeStats(c, fails) ==
  /\ req[c].pc = "c_stat3"
  /\ \E fail \in fails :
       IF fail
       THEN /\ resp' = [resp EXCEPT ![c] = R500Create]
            /\ req' = [req EXCEPT ![c].pc = "done", ![c].failed = "practice"]
            /\ UNCHANGED practiceStats
       ELSE /\ practiceStats' = UpdateStats(practiceStats, req[c].practiceId,
                 "totalAppointments", req[c].n)
            /\ req' = [req EXCEPT ![c].pc = "done",
                                  ![c].wrote = @ \cup {"practice"}]
            /\ resp' = [resp EXCEPT ![c] = R201Created]
  /\ createOk' = IF resp'[c] = R201Created THEN createOk \cup {req[c].id}
                 ELSE createOk
  /\ StoreUnchanged /\ UNCHANGED <<patientStats, providerStats, cancelOk, listed>>
  /\ Track(c, FALSE)

(* ------------------------------ PUT /:id ------------------------------- *)

R404Appointment == Resp(404, "Appointment not found")
R200Updated == Resp(200, "Appointment updated successfully")
R500Update == Resp(500, "Failed to update appointment")

\* { $set: req.body }: the fields the body names replace the stored ones.
SetFields(rec, body) ==
  [rec EXCEPT
     !.appointmentDate = IF body.appointmentDate = NoDate THEN @ ELSE body.appointmentDate,
     !.startTime = IF body.startTime = None THEN @ ELSE body.startTime,
     !.status = IF body.status = None THEN @ ELSE body.status]

\* Appointment.findByIdAndUpdate(id, { $set: body }, { runValidators: true }):
\* one store operation; a body the validators reject throws before any write.
Update(c, id, body) ==
  /\ Free(c)
  /\ req' = [req EXCEPT ![c] = [Idle EXCEPT !.kind = "update", !.pc = "done",
                !.id = id, !.valid = body.valid, !.rejected = ~body.valid,
                !.wrote = IF body.valid /\ Stored(appts, id)
                          THEN {"appointment"} ELSE {}]]
  /\ IF ~body.valid
     THEN resp' = [resp EXCEPT ![c] = R500Update] /\ UNCHANGED appts
     ELSE IF ~Stored(appts, id)
     THEN resp' = [resp EXCEPT ![c] = R404Appointment] /\ UNCHANGED appts
     ELSE /\ appts' = [appts EXCEPT ![id] = SetFields(@, body)]
          /\ resp' = [resp EXCEPT ![c] = R200Updated]
  /\ UNCHANGED nextId /\ StatsUnchanged /\ GhostUnchanged
  /\ Track(c, TRUE)

(* --------------------------- PATCH /:id/status ------------------------- *)

R200Status == Resp(200, "Appointment status updated")
R500Status == Resp(500, "Failed to update status")

\* The request arrives and Appointment.findById runs.
StatusFind(c, id, status) ==
  /\ Free(c)
  /\ LET r == [Idle EXCEPT !.kind = "status", !.id = id, !.status = status]
     IN IF ~Stored(appts, id)
        THEN /\ req' = [req EXCEPT ![c] = [r EXCEPT !.pc = "done"]]
             /\ resp' = [resp EXCEPT ![c] = R404Appointment]
        ELSE /\ req' = [req EXCEPT ![c] = [r EXCEPT !.pc = "s_save"]]
             /\ resp' = [resp EXCEPT ![c] = NoResp]
  /\ StoreUnchanged /\ StatsUnchanged /\ GhostUnchanged
  /\ Track(c, TRUE)

\* appointment.updateStatus(status), saved; the save of a document deleted
\* meanwhile throws.
StatusSave(c) ==
  /\ req[c].pc = "s_save"
  /\ IF ~Stored(appts, req[c].id)
     THEN Respond(c, R500Status) /\ UNCHANGED appts
     ELSE /\ appts' = [appts EXCEPT ![req[c].id] = UpdateStatus(@, req[c].status)]
          /\ resp' = [resp EXCEPT ![c] = R200Status]
          /\ req' = [req EXCEPT ![c].pc = "done", ![c].wrote = {"appointment"}]
  /\ UNCHANGED nextId /\ StatsUnchanged /\ GhostUnchanged
  /\ Track(c, FALSE)

(* --------------------------- POST /:id/cancel -------------------------- *)

R200Cancelled == Resp(200, "Appointment cancelled")
R500Cancel == Resp(500, "Failed to cancel appointment")

RECURSIVE SumOver(_, _)
SumOver(f, ids) ==
  IF ids = {} THEN 0
  ELSE LET id == CHOOSE x \in ids : TRUE IN f[id] + SumOver(f, ids \ {id})

\* The cancel requests acknowledged so far.
Acknowledged == SumOver(cancelOk, DOMAIN cancelOk)

\* The request arrives and Appointment.findById runs.
CancelFind(c, id) ==
  /\ Free(c)
  /\ Acknowledged + InFlight("cancel") < MaxCancels
  /\ LET r == [Idle EXCEPT !.kind = "cancel", !.id = id]
     IN IF ~Stored(appts, id)
        THEN /\ req' = [req EXCEPT ![c] = [r EXCEPT !.pc = "done"]]
             /\ resp' = [resp EXCEPT ![c] = R404Appointment]
        ELSE /\ req' = [req EXCEPT ![c] = [r EXCEPT !.pc = "x_cancel",
                                             !.patientId = appts[id].patientId]]
             /\ resp' = [resp EXCEPT ![c] = NoResp]
  /\ StoreUnchanged /\ StatsUnchanged /\ GhostUnchanged
  /\ Track(c, TRUE)

\* appointment.cancel(cancelledBy, reason), saved.
CancelSave(c) ==
  /\ req[c].pc = "x_cancel"
  /\ IF ~Stored(appts, req[c].id)
     THEN Respond(c, R500Cancel) /\ UNCHANGED appts
     ELSE /\ appts' = [appts EXCEPT ![req[c].id] = Cancel(@)]
          /\ req' = [req EXCEPT ![c].pc = "x_patient", ![c].wrote = {"appointment"}]
          /\ UNCHANGED resp
  /\ UNCHANGED nextId /\ StatsUnchanged /\ GhostUnchanged
  /\ Track(c, FALSE)

\* Patient.findById(appointment.patientId): the handler holds the patient as read.
CancelPatient(c) ==
  /\ req[c].pc = "x_patient"
  /\ IF req[c].patientId \notin Patients
     THEN /\ Respond(c, R200Cancelled)
          /\ cancelOk' = [cancelOk EXCEPT ![req[c].id] = @ + 1]
     ELSE /\ req' = [req EXCEPT ![c].pc = "x_stats",
                ![c].n = patientStats[req[c].patientId].cancelledAppointments]
          /\ UNCHANGED <<resp, cancelOk>>
  /\ StoreUnchanged /\ StatsUnchanged /\ UNCHANGED <<createOk, listed>>
  /\ Track(c, FALSE)

\* The counter the handler writes: (patient.stats.cancelledAppointments || 0) + 1
\* of the patient as read.
CancelledPlusOne(c) == req[c].n + 1

\* patient.updateStats({ cancelledAppointments }), then res.json
CancelStats(c, fails) ==
  /\ req[c].pc = "x_stats"
  /\ \E fail \in fails :
       IF fail
       THEN Respond(c, R500Cancel) /\ UNCHANGED <<patientStats, cancelOk>>
       ELSE /\ patientStats' = UpdateStats(patientStats, req[c].patientId,
                 "cancelledAppointments", CancelledPlusOne(c))
            /\ cancelOk' = [cancelOk EXCEPT ![req[c].id] = @ + 1]
            /\ req' = [req EXCEPT ![c].pc = "done",
                                  ![c].wrote = @ \cup {"patient"}]
            /\ resp' = [resp EXCEPT ![c] = R200Cancelled]
  /\ StoreUnchanged /\ UNCHANGED <<providerStats, practiceStats, createOk, listed>>
  /\ Track(c, FALSE)

(* ------------------------- POST /:id/reschedule ------------------------ *)

R400Slot == Resp(400, "New time slot already booked")
R200Rescheduled == Resp(200, "Appointment rescheduled")
R500Reschedule == Resp(500, "Failed to reschedule appointment")

\* The request arrives and Appointment.findById runs.
RescheduleFind(c, id, newDate, newStartTime) ==
  /\ Free(c)
  /\ LET r == [Idle EXCEPT !.kind = "reschedule", !.id = id,
                           !.appointmentDate = newDate, !.startTime = newStartTime]
     IN IF ~Stored(appts, id)
        THEN /\ req' = [req EXCEPT ![c] = [r EXCEPT !.pc = "done"]]
             /\ resp' = [resp EXCEPT ![c] = R404Appointment]
        ELSE /\ req' = [req EXCEPT ![c] = [r EXCEPT !.pc = "r_conflict",
                                             !.providerId = appts[id].providerId]]
             /\ resp' = [resp EXCEPT ![c] = NoResp]
  /\ StoreUnchanged /\ StatsUnchanged /\ GhostUnchanged
  /\ Track(c, TRUE)

\* Appointment.findOne({ ..., _id: { $ne: appointment._id } })
RescheduleCheck(c) ==
  /\ req[c].pc = "r_conflict"
  /\ IF RescheduleConflict(appts, req[c].providerId, req[c].appointmentDate,
                           req[c].startTime, req[c].id) # {}
     THEN Respond(c, R400Slot)
     ELSE Goto(c, "r_save")
  /\ StoreUnchanged /\ StatsUnchanged /\ GhostUnchanged
  /\ Track(c, FALSE)

\* appointment.reschedule(newDate, newStartTime, newEndTime, reason), saved.
RescheduleSave(c) ==
  /\ req[c].pc = "r_save"
  /\ IF ~Stored(appts, req[c].id)
     THEN Respond(c, R500Reschedule) /\ UNCHANGED appts
     ELSE /\ appts' = [appts EXCEPT ![req[c].id] =
                 Reschedule(@, req[c].appointmentDate, req[c].startTime)]
          /\ resp' = [resp EXCEPT ![c] = R200Rescheduled]
          /\ req' = [req EXCEPT ![c].pc = "done", ![c].wrote = {"appointment"}]
  /\ UNCHANGED nextId /\ StatsUnchanged /\ GhostUnchanged
  /\ Track(c, FALSE)

(* ------------------------------ DELETE /:id ---------------------------- *)

R200Deleted == Resp(200, "Appointment deleted successfully")

\* Appointment.findByIdAndDelete(id): one store operation.
Delete(c, id) ==
  /\ Free(c)
  /\ req' = [req EXCEPT ![c] = [Idle EXCEPT !.kind = "delete", !.pc = "done",
                                 !.id = id,
                                 !.wrote = IF Stored(appts, id)
                                           THEN {"appointment"} ELSE {}]]
  /\ IF ~Stored(appts, id)
     THEN resp' = [resp EXCEPT ![c] = R404Appointment] /\ UNCHANGED appts
     ELSE /\ appts' = [appts EXCEPT ![id] = NoAppt]
          /\ resp' = [resp EXCEPT ![c] = R200Deleted]
  /\ UNCHANGED nextId /\ StatsUnchanged /\ GhostUnchanged
  /\ Track(c, TRUE)

(* -------------------------------- GET / -------------------------------- *)

R200List == Resp(200, "")
NoList == [listing |-> FALSE]

\* The start times a listing tells apart, in their (string) order.
ListTimes == <<"09:00", "10:00">>

TimeRank(t) == CHOOSE i \in 1..Len(ListTimes) : ListTimes[i] = t

\* The filters with $lte written for the $lt of nextDay.
MatchesInclusive(rec, q) ==
  /\ q.practiceId # None => rec.practiceId = q.practiceId
  /\ q.patientId # None => rec.patientId = q.patientId
  /\ q.providerId # None => rec.providerId = q.providerId
  /\ q.status # None => rec.status = q.status
  /\ IF q.date # NoDate
     THEN rec.appointmentDate >= q.date /\ rec.appointmentDate <= q.date + DayLen
     ELSE IF q.startDate # NoDate /\ q.endDate # NoDate
     THEN rec.appointmentDate >= q.startDate /\ rec.appointmentDate <= q.endDate
     ELSE TRUE

\* Appointment.find(filters): the equality filters the query string names, and
\* filters.appointmentDate, { $gte: targetDate, $lt: nextDay } for date, else
\* { $gte: startDate, $lte: endDate } when both are given.
Matches(rec, q) ==
  /\ q.practiceId # None => rec.practiceId = q.practiceId
  /\ q.patientId # None => rec.patientId = q.patientId
  /\ q.providerId # None => rec.providerId = q.providerId
  /\ q.status # None => rec.status = q.status
  /\ IF q.date # NoDate
     THEN rec.appointmentDate >= q.date /\ rec.appointmentDate < q.date + DayLen
     ELSE IF q.startDate # NoDate /\ q.endDate # NoDate
     THEN rec.appointmentDate >= q.startDate /\ rec.appointmentDate <= q.endDate
     ELSE TRUE

Found(a, q) == {id \in DOMAIN a : a[id] # NoAppt /\ Matches(a[id], q)}

\* sort({ appointmentDate: 1, startTime: 1 }): whether x goes before y.
Before(a, x, y) ==
  \/ a[x].appointmentDate < a[y].appointmentDate
  \/ /\ a[x].appointmentDate = a[y].appointmentDate
     /\ TimeRank(a[x].startTime) < TimeRank(a[y].startTime)

RECURSIVE Insert(_, _, _)
\* x put into the sorted sequence s, after the entries it does not go before.
Insert(a, s, x) ==
  IF s = <<>> THEN <<x>>
  ELSE IF Before(a, x, Head(s)) THEN <<x>> \o s
  ELSE <<Head(s)>> \o Insert(a, Tail(s), x)

RECURSIVE Sort(_, _)
\* The documents in the order the store matched them, sorted.
Sort(a, s) ==
  IF s = <<>> THEN <<>> ELSE Insert(a, Sort(a, Tail(s)), Head(s))

\* The orders in which the store may match the documents ids.
Orders(ids) ==
  {s \in [1..Cardinality(ids) -> ids] : \A i, j \in DOMAIN s : i # j => s[i] # s[j]}

\* The whole handler: one find, sorted, answered.
List(c, q) ==
  /\ Free(c)
  /\ \E natural \in Orders(Found(appts, q)) :
       listed' = [listing |-> TRUE, q |-> q, data |-> Sort(appts, natural)]
  /\ req' = [req EXCEPT ![c] = [Idle EXCEPT !.kind = "list", !.pc = "done"]]
  /\ resp' = [resp EXCEPT ![c] = R200List]
  /\ UNCHANGED <<createOk, cancelOk, hist>>
  /\ StoreUnchanged /\ StatsUnchanged

(* ------------------------- the end of a request ------------------------ *)

\* The response has gone out and the request is over: its client may send another.
Close(c) ==
  /\ req[c].pc = "done"
  /\ req' = [req EXCEPT ![c] = Idle]
  /\ resp' = [resp EXCEPT ![c] = NoResp]
  /\ hist' = [k \in DOMAIN hist |-> IF k = c THEN NoHist ELSE hist[k]]
  /\ listed' = IF req[c].kind = "list" THEN NoList ELSE listed
  /\ StoreUnchanged /\ StatsUnchanged /\ UNCHANGED <<createOk, cancelOk>>

(* --------------------------- the specifications ------------------------ *)

Init ==
  /\ appts = [id \in ApptIds |-> NoAppt]
  /\ nextId = 1
  /\ patientStats = [p \in Patients |->
                       [cancelledAppointments |-> 0, nextAppointment |-> NoDate]]
  /\ providerStats = [p \in Providers |-> [totalAppointments |-> 0]]
  /\ practiceStats = [p \in Practices |-> [totalAppointments |-> 0]]
  /\ req = [c \in Seq2 |-> Idle]
  /\ resp = [c \in Seq2 |-> NoResp]
  /\ createOk = {}
  /\ cancelOk = [id \in ApptIds |-> 0]
  /\ listed = NoList
  /\ hist = [c \in Seq2 |-> NoHist]

\* The bodies of POST /.
CreateBodies ==
  [practiceId : PracticeIds, patientId : PatientIds, providerId : ProviderIds,
   appointmentDate : Dates, startTime : Times, valid : BOOLEAN]

\* The bodies of PUT /:id.
UpdateBodies ==
  [appointmentDate : Dates \cup {NoDate}, startTime : {None},
   status : Statuses \cup {None}, valid : {TRUE}]
  \cup [appointmentDate : {NoDate}, startTime : {None}, status : {None},
        valid : {FALSE}]

\* One client: the requests arrive one after the other.
Next ==
  \E c \in Seq1 :
    \/ \E body \in CreateBodies : CreatePractice(c, body)
    \/ CreatePatient(c)
    \/ CreateProvider(c)
    \/ CreateCheck(c)
    \/ CreateSave(c)
    \/ CreatePatientStats(c, BOOLEAN)
    \/ CreateCountProvider(c)
    \/ CreateProviderStats(c, BOOLEAN)
    \/ CreateCountPractice(c)
    \/ CreatePracticeStats(c, BOOLEAN)
    \/ \E id \in ReqApptIds, body \in UpdateBodies : Update(c, id, body)
    \/ \E id \in ReqApptIds, status \in Statuses : StatusFind(c, id, status)
    \/ StatusSave(c)
    \/ \E id \in ReqApptIds : CancelFind(c, id)
    \/ CancelSave(c)
    \/ CancelPatient(c)
    \/ CancelStats(c, BOOLEAN)
    \/ \E id \in ReqApptIds, d \in Dates, t \in Times : RescheduleFind(c, id, d, t)
    \/ RescheduleCheck(c)
    \/ RescheduleSave(c)
    \/ \E id \in ReqApptIds : Delete(c, id)
    \/ Close(c)

Spec == Init /\ [][Next]_vars

\* One client that books, cancels and deletes: every body of POST /, every stat
\* write failing or not.
NextBook ==
  \E c \in Seq1 :
    \/ \E body \in CreateBodies : CreatePractice(c, body)
    \/ CreatePatient(c)
    \/ CreateProvider(c)
    \/ CreateCheck(c)
    \/ CreateSave(c)
    \/ CreatePatientStats(c, BOOLEAN)
    \/ CreateCountProvider(c)
    \/ CreateProviderStats(c, BOOLEAN)
    \/ CreateCountPractice(c)
    \/ CreatePracticeStats(c, BOOLEAN)
    \/ \E id \in ReqApptIds : CancelFind(c, id)
    \/ CancelSave(c)
    \/ CancelPatient(c)
    \/ CancelStats(c, BOOLEAN)
    \/ \E id \in ReqApptIds : Delete(c, id)
    \/ Close(c)

SpecBook == Init /\ [][NextBook]_vars


\* Two clients whose creates and cancels interleave at every store operation; the
\* bodies name a stored practice and provider and pass the schema, and no stat
\* write fails.
RaceBodies ==
  [practiceId : Practices, patientId : PatientIds, providerId : Providers,
   appointmentDate : Dates, startTime : Times, valid : {TRUE}]

NextRace ==
  \E c \in Seq2 :
    \/ \E body \in RaceBodies : CreatePractice(c, body)
    \/ CreatePatient(c)
    \/ CreateProvider(c)
    \/ CreateCheck(c)
    \/ CreateSave(c)
    \/ CreatePatientStats(c, {FALSE})
    \/ CreateCountProvider(c)
    \/ CreateProviderStats(c, {FALSE})
    \/ CreateCountPractice(c)
    \/ CreatePracticeStats(c, {FALSE})
    \/ \E id \in ReqApptIds : CancelFind(c, id)
    \/ CancelSave(c)
    \/ CancelPatient(c)
    \/ CancelStats(c, {FALSE})
    \/ Close(c)

SpecRace == Init /\ [][NextRace]_vars

\* Two clients whose reschedules and deletes interleave at every
\* store operation, from a store of any content: the appointments that creates
\* whose first stat update failed, and updates after them, have left there.
MoveRecords ==
  [practiceId : Practices, patientId : Patients, providerId : Providers,
   appointmentDate : Dates, startTime : Times, status : Statuses]

InitMove ==
  /\ appts \in [ApptIds -> MoveRecords \cup {NoAppt}]
  /\ nextId = MaxAppts + 1
  /\ patientStats = [p \in Patients |->
                       [cancelledAppointments |-> 0, nextAppointment |-> NoDate]]
  /\ providerStats = [p \in Providers |-> [totalAppointments |-> 0]]
  /\ practiceStats = [p \in Practices |-> [totalAppointments |-> 0]]
  /\ req = [c \in Seq2 |-> Idle]
  /\ resp = [c \in Seq2 |-> NoResp]
  /\ createOk = {}
  /\ cancelOk = [id \in ApptIds |-> 0]
  /\ listed = NoList
  /\ hist = [c \in Seq2 |-> NoHist]

NextMove ==
  \E c \in Seq2 :
    \/ \E id \in ReqApptIds, d \in Dates, t \in Times : RescheduleFind(c, id, d, t)
    \/ RescheduleCheck(c)
    \/ RescheduleSave(c)
    \/ \E id \in ReqApptIds : Delete(c, id)
    \/ Close(c)

SpecMove == InitMove /\ [][NextMove]_vars

\* The listing of a store of any content.
ListRecords ==
  [practiceId : Practices, patientId : Patients, providerId : Providers,
   appointmentDate : Instants, startTime : {ListTimes[i] : i \in DOMAIN ListTimes},
   status : {"scheduled", "cancelled"}]

\* The query strings: status, date, startDate and endDate, each given or not;
\* with date, the range is absent or names the first instant alone.
ListQueries ==
  {q \in [practiceId : {None}, patientId : {None}, providerId : {None},
          status : {None, "scheduled"}, date : Instants \cup {NoDate},
          startDate : Instants \cup {NoDate}, endDate : Instants \cup {NoDate}] :
     q.date # NoDate => (q.startDate = q.endDate /\ q.startDate \in {NoDate, 0})}

InitList ==
  /\ appts \in [ApptIds -> ListRecords \cup {NoAppt}]
  /\ nextId = MaxAppts + 1
  /\ patientStats = [p \in Patients |->
                       [cancelledAppointments |-> 0, nextAppointment |-> NoDate]]
  /\ providerStats = [p \in Providers |-> [totalAppointments |-> 0]]
  /\ practiceStats = [p \in Practices |-> [totalAppointments |-> 0]]
  /\ req = [c \in Seq2 |-> Idle]
  /\ resp = [c \in Seq2 |-> NoResp]
  /\ createOk = {}
  /\ cancelOk = [id \in ApptIds |-> 0]
  /\ listed = NoList
  /\ hist = [c \in Seq2 |-> NoHist]

NextList ==
  \E c \in Seq1 :
    \/ \E q \in ListQueries : List(c, q)
    \/ Close(c)

SpecList == InitList /\ [][NextList]_vars

(* ------------------------------ properties ----------------------------- *)

Done(c, kind) == req[c].pc = "done" /\ req[c].kind = kind

SameSlot(x, y) ==
  /\ x.providerId = y.providerId
  /\ x.appointmentDate = y.appointmentDate
  /\ x.startTime = y.startTime

Occupies(rec) == rec # NoAppt /\ rec.status \notin {"cancelled", "no-show"}

EntitiesExist(r) ==
  /\ r.practiceId \in Practices
  /\ r.patientId \in Patients
  /\ r.providerId \in Providers

\* C1: in every reachable state, for every provider and every (appointmentDate,
\* startTime) pair, at most one stored appointment of that provider with a status
\* outside {cancelled, no-show} occupies the pair.
C1_NoDoubleBooking ==
  \A x, y \in ApptIds :
    (x # y /\ Occupies(appts[x]) /\ Occupies(appts[y])) =>
      ~SameSlot(appts[x], appts[y])

\* C2 as stated: a create that arrives while an appointment whose create was
\* answered 201 occupies its slot, and finishes with that slot still occupied, is
\* answered 400 'Time slot already booked for this provider' and stores nothing.
C2_BlockedCreateGets400 ==
  \A c \in Seq2 :
    (Done(c, "create") /\ hist[c].blocked) =>
      (resp[c] = R400Booked /\ req[c].wrote = {})

\* C2 as amended: such a create stores nothing and is rejected, with the 404 of
\* the first of practice and patient that is missing, and with 400 'Time slot
\* already booked for this provider' when both exist.
C2_BlockedCreateRejected ==
  \A c \in Seq2 :
    (Done(c, "create") /\ hist[c].blocked) =>
      /\ req[c].wrote = {}
      /\ resp[c] = IF req[c].practiceId \notin Practices THEN R404Practice
                   ELSE IF req[c].patientId \notin Patients THEN R404Patient
                   ELSE R400Booked

C2_Witness ==
  \E c \in Seq2 :
    Done(c, "create") /\ hist[c].blocked /\ resp[c] = R400Booked

\* C3 as stated, in its second half: a reschedule of a stored appointment to the
\* slot it holds, arriving when no slot is double-booked, is accepted.
C3_OwnSlotAccepted ==
  \A c \in Seq2 :
    (Done(c, "reschedule") /\ hist[c].own /\ hist[c].sound
       /\ Stored(appts, req[c].id)) =>
      resp[c] = R200Rescheduled

\* C3 as amended: a reschedule of A is answered 400 'New time slot already
\* booked', A unchanged, when a different active appointment of A's provider
\* occupies the new slot; A itself never blocks it: a reschedule to the slot A
\* holds, with no different active appointment of the provider in that slot, is
\* accepted, or fails with 500 when A was deleted before the save.
C3_Reschedule ==
  \A c \in Seq2 :
    Done(c, "reschedule") =>
      /\ hist[c].blocked => (resp[c] = R400Slot /\ req[c].wrote = {})
      /\ (hist[c].own /\ hist[c].clear) =>
           /\ resp[c] \in {R200Rescheduled, R500Reschedule}
           /\ resp[c] = R500Reschedule => ~Stored(appts, req[c].id)

C3_Witness ==
  \E c, k \in Seq2 :
    /\ Done(c, "reschedule") /\ hist[c].blocked /\ resp[c] = R400Slot
    /\ Done(k, "reschedule") /\ hist[k].own /\ resp[k] = R200Rescheduled
    /\ Occupies(appts[req[k].id])

C5_NotFoundOrder ==
  \A c \in Seq2 :
    Done(c, "create") =>
      /\ req[c].practiceId \notin Practices => resp[c] = R404Practice
      /\ (req[c].practiceId \in Practices /\ req[c].patientId \notin Patients) =>
           resp[c] = R404Patient
      /\ (req[c].practiceId \in Practices /\ req[c].patientId \in Patients
            /\ req[c].providerId \notin Providers) => resp[c] = R404Provider
      /\ resp[c] \in {R404Practice, R404Patient, R404Provider, R400Booked} =>
           (req[c].wrote = {} /\ req[c].id = 0)

C5_Witness ==
  \E c \in Seq2 :
    /\ Done(c, "create") /\ resp[c] = R404Patient
    /\ req[c].providerId \notin Providers
    /\ \E id \in ApptIds : Stored(appts, id)

\* C6: when the store rejects the write of a create or of a general update for a
\* validation reason, the handler answers 400.
C6_ValidationIs400 ==
  \A c \in Seq2 :
    (req[c].pc = "done" /\ req[c].rejected) => resp[c].code = 400

Expected(q) ==
  {id \in ApptIds :
     /\ appts[id] # NoAppt
     /\ q.status # None => appts[id].status = q.status
     /\ q.date # NoDate =>
          (q.date <= appts[id].appointmentDate
             /\ appts[id].appointmentDate < q.date + DayLen)
     /\ (q.date = NoDate /\ q.startDate # NoDate /\ q.endDate # NoDate) =>
          (q.startDate <= appts[id].appointmentDate
             /\ appts[id].appointmentDate <= q.endDate)}

\* C8: a listing returns exactly the stored appointments matching the other
\* filters whose appointmentDate lies in [D, D + 1 day) for date=D, or in [A, B]
\* for startDate=A, endDate=B and no date, each once, ordered by appointmentDate
\* ascending, then startTime ascending.
C8_ListExact ==
  listed.listing =>
    LET out == listed.data IN
      /\ {out[i] : i \in DOMAIN out} = Expected(listed.q)
      /\ Len(out) = Cardinality(Expected(listed.q))
      /\ \A i, j \in DOMAIN out :
           i < j =>
             \/ appts[out[i]].appointmentDate < appts[out[j]].appointmentDate
             \/ /\ appts[out[i]].appointmentDate = appts[out[j]].appointmentDate
                /\ TimeRank(appts[out[i]].startTime) <= TimeRank(appts[out[j]].startTime)

C8_Witness ==
  /\ listed.listing /\ listed.q.date # NoDate
  /\ Len(listed.data) = 2
  /\ appts[listed.data[1]].appointmentDate = appts[listed.data[2]].appointmentDate
  /\ appts[listed.data[1]].startTime # appts[listed.data[2]].startTime
  /\ listed.data[1] > listed.data[2]

\* C9: the save of a create does not look at the slot again: a create whose
\* conflict query found nothing stores its appointment and is answered 201,
\* whatever has been stored in the slot since; so two creates for one slot whose
\* queries both run before either save both succeed.
C9_QueryDecides ==
  \A c \in Seq2 :
    (Done(c, "create") /\ req[c].passed) =>
      (resp[c] = R201Created /\ "appointment" \in req[c].wrote)

C9_BothBooked ==
  /\ Done("c1", "create") /\ resp["c1"] = R201Created
  /\ Done("c2", "create") /\ resp["c2"] = R201Created
  /\ req["c1"].id # req["c2"].id
  /\ Occupies(appts[req["c1"].id]) /\ Occupies(appts[req["c2"].id])
  /\ SameSlot(appts[req["c1"].id], appts[req["c2"].id])

\* C10: the patient's stats.cancelledAppointments equals its initial value (0)
\* plus the number of cancel requests answered with success.
C10_NoLostIncrement ==
  \A p \in Patients : patientStats[p].cancelledAppointments = Acknowledged

====
